---- MODULE Spec2Model ----
(***************************************************************************)
(* Droneplus: a links/activities tracker that exists in four variants.     *)
(*   "file"      src/server.js 1-243      synchronous JSON file            *)
(*   "locked"    src/server.js 245-652    JSON file, isWriting flag,       *)
(*                                        promise based writeData w/ retry *)
(*   "gist"      src/unnamed/part_000     GitHub Gist, dataCache,          *)
(*                                        syncInProgress                   *)
(*   "firestore" src/unnamed/part_001     Firestore collections            *)
(* One run of the model is one process of one variant (chosen in Init).    *)
(* Node.js runs a callback to completion; an action below is one callback  *)
(* (one macrotask with the microtasks it triggers), except where a state   *)
(* inside a synchronous block is exposed through `running`.                *)
(***************************************************************************)
EXTENDS Integers, Sequences, FiniteSets, TLC

\* ------------------------------------------------------------- bounds
MaxOps == 2          \* requests started in one run of Spec
MaxClickOps == 13    \* requests started in one run of SpecClicks
MaxRefreshOps == 2   \* requests started in one run of SpecRefresh
MaxTime == 9         \* SpecRefresh: Date.now() at most, in minutes

\* --------------------------------------------------- program constants
CapFile == 10        \* "Keep only last 10 activities"
CapGist == 50        \* "Keep only last 50 activities"
DefaultRetries == 3  \* writeData(data, retries = 3)
StaleAfter == 4      \* `> 4 * 60 * 1000`: minutes of Date.now()
TimerPeriod == 5     \* setInterval(..., 5 * 60 * 1000): minutes

Slots == {1, 2}      \* requests that may be in progress at once
TargetIds == {1, 2}   \* ids a PUT / DELETE / click may name
Variants == {"file", "locked", "gist", "firestore"}

VARIABLES
  variant,        \* which server is running
  store,          \* the durable content: data.json, links.json of the gist,
                  \* or the two Firestore collections
  clock,          \* Date.now(): advances with every id that is generated
  nreq,           \* requests started so far
  reqs,           \* per slot: the request handler being executed
  running,        \* slot whose synchronous block is executing, 0 if none
  isWriting,      \* locked: the write lock flag
  token,          \* gist: GITHUB_TOKEN is configured
  dataCache,      \* gist: reference (heap address) of the cached object
  heap,           \* gist: the objects that dataCache and handlers refer to
  lastSyncTime,   \* gist
  syncInProgress, \* gist
  boot,           \* gist: initializeData, its startup fetchGist and the
                  \* fetchGist of its refresh timer
  lastMut,        \* history: the last application of a mutation
  lastSave,       \* history: what wrote the durable content last
  run,            \* history: clicks in a row on the link added last
  lastGood        \* history, gist: content of the last load or save that
                  \* succeeded

vars == <<variant, store, clock, nreq, reqs, running, isWriting, token,
          dataCache, heap, lastSyncTime, syncInProgress, boot, lastMut,
          lastSave, run, lastGood>>

\* ------------------------------------------------------------ the data
\* Content of the backend document, or of a JavaScript object holding it.
\* kind "snap": a Snapshot {links, activities}; "corrupt": text JSON.parse
\* rejects; "null": the JSON text null; "nolinks": the JSON text {} (an
\* object without links and activities); "none": no value.
Snap(ls, as) == [kind |-> "snap", links |-> ls, activities |-> as]
EmptySnap == Snap(<<>>, <<>>)
Corrupt == [kind |-> "corrupt", links |-> <<>>, activities |-> <<>>]
None == [kind |-> "none", links |-> <<>>, activities |-> <<>>]
Failed == [kind |-> "failed", links |-> <<>>, activities |-> <<>>]
JsonNull == [kind |-> "null", links |-> <<>>, activities |-> <<>>]
NoLinks == [kind |-> "nolinks", links |-> <<>>, activities |-> <<>>]

\* req.body of POST and PUT
Body(n, u, d, c) == [name |-> n, url |-> u, description |-> d, category |-> c]
NoBody == Body("", "", "", "")
PostBody == Body("Docs", "http://x", "d1", "ref")
PutBody == Body("Blog", "http://y", "d2", "misc")

\* updatedAt 0 and permanent FALSE stand for an absent field.
Link(i, b, k, ca, ua, p) ==
  [id |-> i, name |-> b.name, url |-> b.url, description |-> b.description,
   category |-> b.category, clicks |-> k, createdAt |-> ca, updatedAt |-> ua,
   permanent |-> p]

\* linkId 0 stands for an absent field (only Firestore records it).
Activity(i, ty, n, lid, ts) ==
  [id |-> i, type |-> ty, linkName |-> n, linkId |-> lid, timestamp |-> ts]

\* ------------------------------------------------ array operations (JS)
Unshift(s, x) == <<x>> \o s
Pop(s) == SubSeq(s, 1, Len(s) - 1)
\* Array.prototype.findIndex: 0-based index of the first match, or -1
FindIndex_First(links, id) == IF Len(links) > 0 THEN 0 ELSE -1
FindIndex(links, id) ==
  IF \E i \in 1..Len(links) : links[i].id = id
  THEN (CHOOSE i \in 1..Len(links) :
          links[i].id = id /\ \A j \in 1..(i-1) : links[j].id # id) - 1
  ELSE -1
\* links.splice(idx, 1)
Splice_ToEnd(s, idx) == SubSeq(s, 1, idx)
Splice(s, idx) == SubSeq(s, 1, idx) \o SubSeq(s, idx + 2, Len(s))

\* data.activities.unshift(a); if (data.activities.length > cap) pop()
AddActivity_PushShift(acts, a, cap) ==
  IF Len(acts) + 1 > cap THEN Tail(Append(acts, a)) ELSE Append(acts, a)
\* activities.slice(0, cap) in place of the single pop()
AddActivity_Truncate(acts, a, cap) ==
  IF Len(Unshift(acts, a)) > cap THEN SubSeq(Unshift(acts, a), 1, cap)
  ELSE Unshift(acts, a)
AddActivity(acts, a, cap) ==
  IF Len(Unshift(acts, a)) > cap THEN Pop(Unshift(acts, a)) ELSE Unshift(acts, a)

Cap(v) == IF v = "gist" THEN CapGist ELSE CapFile
\* the Gist variant writes permanent: true into every link it touches
Permanent(v) == v = "gist"

\* ------------------------------------------- the four transformations
\* Each is the body of a handler between the load and the save, applied to
\* the loaded Snapshot d at time t (ids and timestamps derive from Date.now()).
ApplyPost(d, b, t, v) ==
  Snap(Unshift(d.links, Link(t, b, 0, t, 0, Permanent(v))),
       AddActivity(d.activities, Activity(t, "added", b.name, 0, t), Cap(v)))

\* without the spread of the old link
ApplyPut_Rebuild(d, idx, b, t, v) ==
  Snap([d.links EXCEPT ![idx + 1] =
          Link(d.links[idx + 1].id, b, 0, t, t, Permanent(v))],
       AddActivity(d.activities, Activity(t, "edited", b.name, 0, t), Cap(v)))
ApplyPut(d, idx, b, t, v) ==
  LET old == d.links[idx + 1]
      new == Link(old.id, b, old.clicks, old.createdAt, t,
                  old.permanent \/ Permanent(v))
  IN Snap([d.links EXCEPT ![idx + 1] = new],
          AddActivity(d.activities, Activity(t, "edited", b.name, 0, t), Cap(v)))

ApplyDelete(d, idx, t, v) ==
  Snap(Splice(d.links, idx),
       AddActivity(d.activities,
                   Activity(t, "deleted", d.links[idx + 1].name, 0, t), Cap(v)))

ApplyClick_NoIncrement(d, idx, t, v) ==
  Snap(d.links,
       AddActivity(d.activities,
                   Activity(t, "clicked", d.links[idx + 1].name, 0, t), Cap(v)))
ApplyClick(d, idx, t, v) ==
  LET old == d.links[idx + 1]
  IN Snap([d.links EXCEPT ![idx + 1] = [old EXCEPT !.clicks = old.clicks + 1]],
          AddActivity(d.activities, Activity(t, "clicked", old.name, 0, t), Cap(v)))

Apply(op, d, idx, b, t, v) ==
  CASE op = "post" -> ApplyPost(d, b, t, v)
    [] op = "put" -> ApplyPut(d, idx, b, t, v)
    [] op = "delete" -> ApplyDelete(d, idx, t, v)
    [] op = "click" -> ApplyClick(d, idx, t, v)

MutOps == {"post", "put", "delete", "click"}
IdOps == {"put", "delete", "click"}

\* ---------------------------------------------------------- requests
EmptyReq ==
  [op |-> "none", id |-> 0, body |-> NoBody, pc |-> "idle", status |-> 0,
   data |-> None,        \* file variants: the handler's local `data`
   ref |-> -1,           \* gist: the handler's local `data`, a reference
   resp |-> None,        \* gist: response of the GET in flight
   patch |-> None,       \* gist: content of the PATCH in flight
   retries |-> 0,        \* locked: the `retries` argument of the attempt
   linkName |-> "",      \* firestore: the handler's linkName
   out |-> None,         \* GET: the data whose links or activities were
                         \* sent; POST answered 200: the link that was sent
   linkIndex |-> -1,     \* gist: the handler's linkIndex
   newLink |-> None,     \* gist, POST: the object newLink of the handler
   own |-> FALSE,        \* gist, POST: newLink is an element of data.links
   \* history of the request
   seen |-> {},          \* ids of the links in the Snapshot it loaded
   actId |-> 0,          \* id of the activity it created, 0 if none
   newId |-> 0,          \* id of the link it created, 0 if none
   saves |-> 0,          \* backend saves it issued
   cacheBefore |-> None, \* gist: content of dataCache before its change
   updFalse |-> FALSE,   \* gist: its updateGist returned false
   loadFailed |-> FALSE, \* its load did not get the content of the backend
   gotGood |-> FALSE,    \* gist: fetchGist returned the content of lastGood
   cacheKept |-> FALSE,  \* gist: fetchGist left dataCache and lastSyncTime
   backendErr |-> FALSE, \* the backend failed to serve a call of it
   busy |-> FALSE,       \* its save found another save in flight
   caught |-> 0,         \* locked: attempts of its writeData that ended in
                         \* the catch block
   unhandled |-> FALSE,  \* locked: its writeData promise was rejected and
                         \* nothing but the process handler received it
   linkSaved |-> FALSE,  \* its link change is durable
   actSaved |-> FALSE,   \* its activity is durable
   alone |-> FALSE,      \* no request was in progress when it arrived
   after |-> 0]          \* id of the link added by the request before it,
                         \* when that was a POST answered 200 before this
                         \* one arrived and itself arrived alone; else 0

Free(r) == reqs[r].pc \in {"idle", "done"}
\* A new request takes the lowest free slot.
Fresh(r) == Free(r) /\ \A q \in Slots : q < r => ~Free(q)

\* The records of the requests, as a step leaves them: those of answered
\* requests are history, and are dropped when a request arrives while none
\* is in progress.
Kept ==
  IF \A t \in Slots : Free(t) THEN [t \in Slots |-> EmptyReq] ELSE reqs
\* The request in slot r is answered, arrived alone, and none arrived since.
Lone(r) ==
  /\ reqs[r].pc = "done" /\ reqs[r].alone
  /\ \A t \in Slots \ {r} : reqs[t] = EmptyReq
\* The record of a request that arrives and takes slot r.
NewReq(r) ==
  [EmptyReq EXCEPT
     !.alone = \A t \in Slots : Free(t),
     !.after = IF Lone(r) /\ reqs[r].op = "post" /\ reqs[r].status = 200
               THEN reqs[r].newId ELSE 0]

Ids(links) == {links[i].id : i \in 1..Len(links)}

NoMut == [op |-> "none", id |-> 0, body |-> NoBody, pre |-> None, post |-> None]
NoRun == [id |-> 0, n |-> 0]
\* boot: pc and resp are the fetchGist of initializeData that is under way;
\* tick and since are history, the outcome of the last run of the timer's
\* callback ("none", "skip", "load") and the age of lastSyncTime it found.
\* ok is history: the last fetchGist of initializeData or of its timer that
\* has returned did so from its try block with the content of the gist.
NoBoot ==
  [pc |-> "idle", resp |-> None, tick |-> "none", since |-> 0, ok |-> TRUE]
RunOff == [id |-> -1, n |-> 0]   \* Spec does not follow the row

\* run: a successful POST starts a row of clicks on the new link; a
\* successful click on that link extends it; any other mutation ends it.
RunAfter(q) ==
  IF run.id = -1 \/ q.status # 200 \/ q.op \notin MutOps THEN run
  ELSE IF q.op = "post" THEN [id |-> q.newId, n |-> 0]
  ELSE IF q.op = "click" /\ q.id = run.id THEN [run EXCEPT !.n = run.n + 1]
  ELSE NoRun

\* ------------------------------------------------------------- Init
OldActs(k) == [i \in 1..k |-> Activity(0 - i, "added", "Old", 0, 0)]
InitLinks == <<Link(1, PostBody, 0, 1, 0, FALSE)>>
\* The durable content at startup: one link and one activity less than the
\* cap; in the file variants possibly text that is no JSON, or the JSON
\* text null or {}.
InitStores(v) ==
  {Snap(InitLinks, OldActs(Cap(v) - 1))}
  \cup (IF v \in {"file", "locked"} THEN {Corrupt, JsonNull, NoLinks} ELSE {})

Init ==
  /\ variant \in Variants
  /\ store \in InitStores(variant)
  /\ clock = 2
  /\ nreq = 0
  /\ reqs = [r \in Slots |-> EmptyReq]
  /\ running = 0
  /\ isWriting = FALSE
  /\ token \in IF variant = "gist" THEN BOOLEAN ELSE {FALSE}
  /\ dataCache = 0
  /\ heap = [o \in 0..Cardinality(Slots) |->
               IF variant = "gist" /\ o = 0 THEN EmptySnap ELSE None]
  /\ lastSyncTime = clock
  /\ syncInProgress = FALSE
  \* initializeData() has called fetchGist: without a token it has returned,
  \* with one its GET is in flight, answered from the content at startup
  /\ boot \in IF token
              THEN {[pc |-> "fetching", resp |-> IF netOk THEN store ELSE Failed,
                    tick |-> "none", since |-> 0, ok |-> TRUE] :
                      netOk \in BOOLEAN}
              ELSE {NoBoot}
  /\ lastMut = NoMut
  /\ lastSave = "init"
  /\ run = RunOff
  /\ lastGood = EmptySnap

\* --------------------------------------------------- variant "file"
\* readData: JSON.parse(fs.readFileSync(...)), whatever it is (a Snapshot,
\* null, an object without links); the empty Snapshot when reading or
\* parsing throws (the file holds text that is no JSON).
\* a catch block that returns a Snapshot with a sample link
FileReadData_Seeded ==
  IF store.kind = "corrupt"
  THEN Snap(<<Link(1, PostBody, 0, 1, 0, FALSE)>>, <<>>) ELSE store
FileReadData ==
  IF store.kind = "corrupt" THEN EmptySnap ELSE store

\* GET /api/links, GET /api/activities: res.json(data.links) and
\* res.json(data.activities) of what readData returned.  Reading a property
\* of null throws, and Express answers 500; of an object without links and
\* activities it is undefined, and res.json(undefined) answers 200.
FileGet(r) ==
  /\ variant = "file" /\ running = 0 /\ Fresh(r)
  /\ LET d == FileReadData
         q == [NewReq(r) EXCEPT !.op = "get", !.pc = "done",
                               !.loadFailed = store.kind # "snap",
                               !.seen = Ids(d.links)]
     IN reqs' = [Kept EXCEPT ![r] =
                   IF d.kind = "null"
                   THEN [q EXCEPT !.status = 500]
                   ELSE [q EXCEPT !.status = 200, !.out = d]]
  /\ nreq' = nreq + 1
  /\ UNCHANGED <<variant, store, clock, running, isWriting, token, dataCache,
                 heap, lastSyncTime, syncInProgress, boot, lastMut, lastSave,
                 run, lastGood>>

\* POST /api/links, PUT/DELETE /api/links/:id, POST /api/links/:id/click.
\* The handler is synchronous: load, transform, writeData, respond.
\* wrOk: fs.writeFileSync did not throw.  When readData returned null or an
\* object without links, data.links.unshift / findIndex throws before
\* anything is written, and Express answers 500.
FileMutate(r, op, id, b, wrOk) ==
  /\ variant = "file" /\ running = 0 /\ Fresh(r)
  /\ LET d == FileReadData
         idx == IF op = "post" THEN 0 ELSE FindIndex(d.links, id)
         q0 == [NewReq(r) EXCEPT !.op = op, !.id = id, !.body = b,
                                !.pc = "done", !.seen = Ids(d.links),
                                !.loadFailed = store.kind # "snap"]
     IN IF d.kind # "snap"
        THEN /\ reqs' = [Kept EXCEPT ![r] = [q0 EXCEPT !.status = 500]]
             /\ UNCHANGED <<store, clock, lastMut, lastSave, run>>
        ELSE IF idx = -1
        THEN /\ reqs' = [Kept EXCEPT ![r] = [q0 EXCEPT !.status = 404]]
             /\ UNCHANGED <<store, clock, lastMut, lastSave, run>>
        ELSE LET new == Apply(op, d, idx, b, clock, variant)
                 q == [q0 EXCEPT !.actId = clock,
                                 !.newId = IF op = "post" THEN clock ELSE 0,
                                 !.saves = 1,
                                 !.status = IF wrOk THEN 200 ELSE 500,
                                 !.out = IF wrOk /\ op = "post"
                                         THEN Snap(<<Head(new.links)>>, <<>>)
                                         ELSE None,
                                 !.linkSaved = wrOk, !.actSaved = wrOk]
             IN /\ reqs' = [Kept EXCEPT ![r] = q]
                /\ clock' = clock + 1
                /\ lastMut' = [op |-> op, id |-> id, body |-> b, pre |-> d,
                            post |-> new]
                /\ store' = IF wrOk THEN new ELSE store
                /\ lastSave' = IF wrOk THEN "mutation" ELSE lastSave
                /\ run' = RunAfter(q)
  /\ nreq' = nreq + 1
  /\ UNCHANGED <<variant, running, isWriting, token, dataCache, heap,
                 lastSyncTime, syncInProgress, boot, lastGood>>

\* -------------------------------------------------- variant "locked"
\* readData(retries = 3): the parsed file; the empty Snapshot while isWriting
\* is set or when something in the try block throws: reading, parsing, or
\* the console.log of parsed.links.length and parsed.activities.length, as
\* it does for null and for an object without links.  The timers it arms
\* call readData again and drop the result: they change no state and are
\* left out.
LockedParsed == IF store.kind = "snap" THEN store ELSE EmptySnap
LockedReadData == IF isWriting THEN EmptySnap ELSE LockedParsed

\* GET /api/links, GET /api/activities: res.json of a property of what
\* readData returned, inside try; the catch block answers 500.
LockedGet(r) ==
  /\ variant = "locked" /\ running = 0 /\ Fresh(r)
  /\ LET d == LockedReadData
         q == [NewReq(r) EXCEPT !.op = "get", !.pc = "done",
                               !.loadFailed = store.kind # "snap",
                               !.seen = Ids(d.links)]
     IN reqs' = [Kept EXCEPT ![r] =
                   IF d.kind = "snap"
                   THEN [q EXCEPT !.status = 200, !.out = d]
                   ELSE [q EXCEPT !.status = 500]]
  /\ nreq' = nreq + 1
  /\ UNCHANGED <<variant, store, clock, running, isWriting, token, dataCache,
                 heap, lastSyncTime, syncInProgress, boot, lastMut, lastSave,
                 run, lastGood>>

\* `retries - 1`, the budget writeData hands to the call its timer makes
NextRetries(n) == n - 1

\* writeData(data, retries), the executor of the promise, up to the write:
\* while isWriting is set a timer is armed that calls writeData(data,
\* retries - 1); otherwise the flag is taken.  q.retries is the argument of
\* the invocation.
WriteDataEnter(r, q) ==
  IF isWriting
  THEN /\ reqs' = [Kept EXCEPT ![r] = [q EXCEPT !.pc = "retryWait",
                                               !.retries = NextRetries(q.retries),
                                               !.busy = TRUE]]
       /\ UNCHANGED <<isWriting, running>>
  ELSE /\ reqs' = [Kept EXCEPT ![r] = [q EXCEPT !.pc = "writing"]]
       /\ isWriting' = TRUE
       /\ running' = r

\* The async handlers of POST, PUT, DELETE and click up to `await writeData`.
LockedMutate(r, op, id, b) ==
  /\ variant = "locked" /\ running = 0 /\ Fresh(r)
  /\ LET d == LockedReadData
         idx == IF op = "post" THEN 0 ELSE FindIndex(d.links, id)
         q0 == [NewReq(r) EXCEPT !.op = op, !.id = id, !.body = b,
                                !.seen = Ids(d.links),
                                !.loadFailed = store.kind # "snap"]
     IN IF idx = -1
        THEN /\ reqs' = [Kept EXCEPT ![r] = [q0 EXCEPT !.status = 404,
                                                      !.pc = "done"]]
             /\ UNCHANGED <<clock, lastMut, isWriting, running>>
        ELSE LET new == Apply(op, d, idx, b, clock, variant)
             IN /\ WriteDataEnter(r, [q0 EXCEPT !.actId = clock,
                         !.newId = IF op = "post" THEN clock ELSE 0,
                         !.data = new, !.retries = DefaultRetries])
                /\ clock' = clock + 1
                /\ lastMut' = [op |-> op, id |-> id, body |-> b, pre |-> d,
                            post |-> new]
  /\ nreq' = nreq + 1
  /\ UNCHANGED <<variant, store, token, dataCache, heap, lastSyncTime,
                 syncInProgress, boot, lastSave, run, lastGood>>

\* The handlers that call writeData without `await`.
Unawaited_None(op) == FALSE
Unawaited(op) == op = "restore"

\* POST /api/restore: writeData(data) is not awaited.  The executor of the
\* promise runs inside the call: it makes the first attempt (LockedWrite),
\* or, finding the flag set, arms the timer and returns; then
\* `res.json({success: true})` follows in the same callback.
RestoreInputs == {None, NoLinks, Snap(InitLinks, OldActs(CapFile + 2))}
LockedRestore(r, d) ==
  /\ variant = "locked" /\ running = 0 /\ Fresh(r)
  /\ LET q0 == [NewReq(r) EXCEPT !.op = "restore"]
     IN IF d.kind = "none"
        THEN /\ reqs' = [Kept EXCEPT ![r] = [q0 EXCEPT !.status = 400,
                                                      !.pc = "done"]]
             /\ UNCHANGED <<isWriting, running>>
        ELSE WriteDataEnter(r, [q0 EXCEPT !.data = d,
                       !.status = IF isWriting /\ Unawaited("restore")
                                  THEN 200 ELSE 0,
                       !.retries = DefaultRetries])
  /\ nreq' = nreq + 1
  /\ UNCHANGED <<variant, store, clock, token, dataCache, heap, lastSyncTime,
                 syncInProgress, boot, lastMut, lastSave, run, lastGood>>

\* `if (retries > 0)` in the catch block of writeData
RetryLeft_Never(q) == FALSE
RetryLeft(q) == q.retries > 0

\* isWriting at the end of an attempt whose write succeeded (wrOk) or threw:
\* `isWriting = false` after the write and in the catch block.
FlagAfterWrite_OnlyOnSuccess(wrOk) == ~wrOk
FlagAfterWrite(wrOk) == FALSE

\* The outcome of an attempt settles the promise the handler awaits: the
\* first call of writeData returned that promise, and a call made by a timer
\* is chained to it with `.then(resolve).catch(reject)`.
Settles_FirstCallOnly(q) == q.retries = DefaultRetries
Settles(q) == TRUE

\* `console.log(... data.links.length ... data.activities.length ...)` after
\* the write, inside the try block: it throws for data that has no links
\* and no activities array, which only /api/restore hands to writeData.
LogThrows(data) == data.kind # "snap"

\* writeData between `isWriting = true` and the end of the executor: the
\* write, the console.log, the release of the flag, and resolve, a new timer
\* or reject.  An attempt ends in the catch block when the write threw, or
\* when the write succeeded and the console.log after it threw.  The
\* awaiting handler answers 200 on resolve and 500 on reject; the restore
\* handler answers 200 when its call of writeData returns, which is at the
\* end of the first attempt, and a reject of its promise goes to the handler
\* of `unhandledRejection`.
LockedWrite(r, wrOk) ==
  /\ variant = "locked" /\ running = r /\ reqs[r].pc = "writing"
  /\ LET q == reqs[r]
         restore == q.op = "restore"
         tryOk == wrOk /\ ~LogThrows(q.data)
         q1 == [q EXCEPT !.saves = q.saves + 1,
                         !.caught = IF tryOk THEN q.caught ELSE q.caught + 1,
                         !.backendErr = q.backendErr \/ ~wrOk]
         qOk == [q1 EXCEPT !.pc = "done", !.status = 200, !.data = None,
                           !.out = IF q.op = "post"
                                   THEN Snap(<<Head(q.data.links)>>, <<>>)
                                   ELSE None,
                           !.linkSaved = ~restore, !.actSaved = ~restore]
         qRetry == [q1 EXCEPT !.pc = "retryWait",
                              !.retries = NextRetries(q.retries),
                              !.status = IF Unawaited(q.op) THEN 200 ELSE 0]
         qRej == [q1 EXCEPT !.pc = "done", !.data = None,
                            !.unhandled = Unawaited(q.op),
                            !.status = IF Unawaited(q.op) THEN 200 ELSE 500]
         qEnd == IF tryOk THEN qOk ELSE IF RetryLeft(q) THEN qRetry ELSE qRej
         q2 == IF qEnd.pc = "done" /\ ~Settles(q)
               THEN [q1 EXCEPT !.pc = "unsettled"] ELSE qEnd
     IN /\ reqs' = [Kept EXCEPT ![r] = q2]
        /\ store' = IF wrOk THEN q.data ELSE store
        /\ lastSave' = IF ~wrOk THEN lastSave
                       ELSE IF restore THEN "restore" ELSE "mutation"
        /\ run' = IF q2.pc = "done" THEN RunAfter(q2) ELSE run
  /\ isWriting' = FlagAfterWrite(wrOk)
  /\ running' = 0
  /\ UNCHANGED <<variant, clock, nreq, token, dataCache, heap, lastSyncTime,
                 syncInProgress, boot, lastMut, lastGood>>

\* The 100 ms timer armed by writeData fires.
LockedTimer(r) ==
  /\ variant = "locked" /\ running = 0 /\ reqs[r].pc = "retryWait"
  /\ WriteDataEnter(r, reqs[r])
  /\ UNCHANGED <<variant, store, clock, nreq, token, dataCache, heap,
                 lastSyncTime, syncInProgress, boot, lastMut, lastSave, run,
                 lastGood>>

\* ---------------------------------------------------- variant "gist"
\* JavaScript objects are held by reference: dataCache and the handlers'
\* local `data` are addresses into heap, so that an in-place change made
\* through one reference is seen through every other.
Objs == 0..Cardinality(Slots)
Referenced(o, dc, rq) ==
  o = dc \/ \E r \in Slots : rq[r].pc \notin {"idle", "done"} /\ rq[r].ref = o
\* the address JSON.parse returns: an object nothing refers to
Alloc == CHOOSE o \in Objs :
           /\ ~Referenced(o, dataCache, reqs)
           /\ \A p \in Objs : p < o => Referenced(p, dataCache, reqs)
\* objects nothing refers to are garbage
Collect(h, dc, rq) ==
  [o \in Objs |-> IF Referenced(o, dc, rq) THEN h[o] ELSE None]

\* The GET of fetchGist as the server answers it: the content of links.json,
\* or an error (network, 401, 404, links.json missing).
GistGet(netOk) == IF netOk THEN store ELSE Failed

\* What a call of fetchGist did: dc, heap, lst are dataCache, the objects and
\* lastSyncTime after it, ret the reference it returned, ok whether it
\* returned from the try block.
\* fetchGist without a token: `return dataCache`, nothing else changes.
FetchNoToken ==
  [dc |-> dataCache, heap |-> heap, lst |-> lastSyncTime, ret |-> dataCache,
   ok |-> FALSE]
\* fetchGist from the response on.  The request or JSON.parse threw: the
\* catch block returns dataCache.  Otherwise dataCache = data and
\* lastSyncTime = Date.now(); then console.log reads data.links.length and
\* `return data` follows, or, data being null or having no links, the read
\* throws and the catch block returns dataCache, which is data by now.
FetchReturn(resp) ==
  IF resp.kind \in {"snap", "null", "nolinks"}
  THEN [dc |-> Alloc, heap |-> [heap EXCEPT ![Alloc] = resp], lst |-> clock,
        ret |-> Alloc, ok |-> resp.kind = "snap"]
  ELSE FetchNoToken

\* updateGist(data) refuses while a sync is in progress.
UpdateGistBusy_NoGate == FALSE
UpdateGistBusy == syncInProgress

\* syncInProgress once updateGist has left its try block with `return true`
\* (ok) or `return false`: `finally { syncInProgress = false }`.
SyncAfterUpdate_OnlyOnSuccess(ok) == ~ok
SyncAfterUpdate(ok) == FALSE

\* A handler from the return of `await fetchGist()` (f: what fetchGist did)
\* to its response or to the PATCH of updateGist.
GistHandle(r, q, f) ==
  LET d == f.heap[f.ret]
      idx == IF q.op = "post" THEN 0 ELSE FindIndex(d.links, q.id)
      q0 == [q EXCEPT !.seen = Ids(d.links), !.resp = None,
                      !.loadFailed = ~f.ok,
                      !.gotGood = (d = lastGood),
                      !.cacheKept = /\ f.dc = dataCache
                                    /\ f.heap[f.dc] = heap[dataCache]
                                    /\ f.lst = lastSyncTime]
      new == Apply(q.op, d, idx, q.body, clock, variant)
      h1 == [f.heap EXCEPT ![f.ret] = new]    \* the change is made in place
      q1 == [q0 EXCEPT !.actId = clock,
                       !.newId = IF q.op = "post" THEN clock ELSE 0,
                       !.linkIndex = IF q.op = "post" THEN -1 ELSE idx,
                       !.cacheBefore = f.heap[f.dc]]
      qGet == [q0 EXCEPT !.pc = "done", !.status = 200, !.out = d]
      qSync == [q0 EXCEPT !.pc = "done", !.status = 200]
      q404 == [q0 EXCEPT !.pc = "done", !.status = 404]
      qThrew == [q0 EXCEPT !.pc = "done", !.status = 500]
      qFalse == [q1 EXCEPT !.pc = "done", !.status = 500, !.updFalse = TRUE,
                           !.busy = UpdateGistBusy]
      qPatch == [q1 EXCEPT !.pc = "patching", !.ref = f.ret, !.patch = new,
                           !.saves = 1, !.own = q.op = "post",
                           !.newLink = IF q.op = "post"
                                       THEN Snap(<<Head(new.links)>>, <<>>)
                                       ELSE None]
      Finish(q2, h) ==
        /\ reqs' = [Kept EXCEPT ![r] = q2]
        /\ heap' = Collect(h, f.dc, [reqs EXCEPT ![r] = q2])
      \* The change is made to the object another handler holds too: a click
      \* increments the clicks of that handler's newLink, which is the
      \* element found; a PUT puts a new object in its place and a DELETE
      \* removes it, and the handler's newLink stays as it is.
      Touch(t) ==
        LET k == Kept[t]
        IN IF t # r /\ k.own /\ k.ref = f.ret /\ k.newId = q.id
           THEN IF q.op = "click"
                THEN [k EXCEPT !.newLink = Snap(<<new.links[idx + 1]>>, <<>>)]
                ELSE [k EXCEPT !.own = FALSE]
           ELSE k
      FinishChange(q2) ==
        /\ reqs' = [t \in Slots |-> IF t = r THEN q2 ELSE Touch(t)]
        /\ heap' = Collect(h1, f.dc, [reqs EXCEPT ![r] = q2])
  IN /\ dataCache' = f.dc
     /\ lastSyncTime' = f.lst
     /\ lastGood' = IF f.ok THEN d ELSE lastGood
     /\ IF d.kind = "null" \/ (d.kind = "nolinks" /\ q.op # "get")
        \* data.links of null, or a method of the undefined data.links:
        \* a TypeError, the catch block of the handler answers 500
        THEN Finish(qThrew, f.heap) /\ UNCHANGED <<clock, lastMut, syncInProgress>>
        ELSE IF q.op = "get"
        \* res.json(data.links), res.json(data.activities)
        THEN Finish(qGet, f.heap) /\ UNCHANGED <<clock, lastMut, syncInProgress>>
        ELSE IF q.op = "sync"
        \* POST /api/sync: res.json({success: true, linksCount, ...})
        THEN Finish(qSync, f.heap) /\ UNCHANGED <<clock, lastMut, syncInProgress>>
        ELSE IF idx = -1
        THEN Finish(q404, f.heap) /\ UNCHANGED <<clock, lastMut, syncInProgress>>
        ELSE /\ clock' = clock + 1
             /\ lastMut' = [op |-> q.op, id |-> q.id, body |-> q.body,
                            pre |-> d, post |-> new]
             /\ IF UpdateGistBusy
                THEN FinishChange(qFalse) /\ UNCHANGED syncInProgress
                ELSE IF ~token
                \* syncInProgress is set, `return false`, finally resets it
                THEN FinishChange(qFalse) /\ syncInProgress' = SyncAfterUpdate(FALSE)
                ELSE FinishChange(qPatch) /\ syncInProgress' = TRUE

\* A request arrives: the handler calls fetchGist.  Without a token fetchGist
\* returns at once and the handler goes on; with one, the GET is sent (and
\* answered by the server with the content it holds then).
GistStart(r, op, id, b, netOk) ==
  /\ variant = "gist" /\ running = 0 /\ Fresh(r)
  /\ LET q == [NewReq(r) EXCEPT !.op = op, !.id = id, !.body = b]
     IN IF ~token
        THEN GistHandle(r, q, FetchNoToken)
        ELSE /\ reqs' = [Kept EXCEPT ![r] = [q EXCEPT !.pc = "fetching",
                                                     !.resp = GistGet(netOk)]]
             /\ UNCHANGED <<clock, dataCache, heap, lastSyncTime,
                            syncInProgress, lastMut, lastGood>>
  /\ nreq' = nreq + 1
  /\ UNCHANGED <<variant, store, running, isWriting, token, boot, lastSave, run>>

\* The response of the GET arrives.
GistFetched(r) ==
  /\ variant = "gist" /\ running = 0 /\ reqs[r].pc = "fetching"
  /\ GistHandle(r, reqs[r], FetchReturn(reqs[r].resp))
  /\ UNCHANGED <<variant, store, nreq, running, isWriting, token, boot,
                 lastSave, run>>

\* The server handles the PATCH: it stores the content, or refuses it.
GistPatchServe(r, ok) ==
  /\ variant = "gist" /\ running = 0 /\ reqs[r].pc = "patching"
  /\ store' = IF ok THEN reqs[r].patch ELSE store
  /\ lastSave' = IF ok THEN "mutation" ELSE lastSave
  /\ reqs' = [Kept EXCEPT ![r] =
                [@ EXCEPT !.pc = IF ok THEN "patchOk" ELSE "patchErr",
                          !.patch = None, !.linkSaved = ok, !.actSaved = ok,
                          !.backendErr = ~ok]]
  /\ UNCHANGED <<variant, clock, nreq, running, isWriting, token, dataCache,
                 heap, lastSyncTime, syncInProgress, boot, lastMut, run,
                 lastGood>>

\* updateGist from the response of the PATCH on: dataCache = data,
\* lastSyncTime = Date.now(), `return true`; `return false` in the catch;
\* syncInProgress = false in the finally.  The handler answers 200 or 500;
\* the click handler answers with data.links[linkIndex].clicks, and when
\* data.links has no element at linkIndex any more the read throws and the
\* catch block answers 500.
GistPatched(r) ==
  /\ variant = "gist" /\ running = 0 /\ reqs[r].pc \in {"patchOk", "patchErr"}
  /\ LET q == reqs[r]
         ok == q.pc = "patchOk"
         \* res.json(newLink): the object the handler built
         threw == /\ ok /\ q.op = "click"
                  /\ q.linkIndex + 1 > Len(heap[q.ref].links)
         q2 == [q EXCEPT !.pc = "done",
                         !.status = IF ok /\ ~threw THEN 200 ELSE 500,
                         !.linkIndex = -1,
                         !.out = IF ok /\ q.op = "post" THEN q.newLink
                                 ELSE None,
                         !.newLink = None, !.own = FALSE,
                         !.updFalse = ~ok, !.ref = -1]
         dc == IF ok THEN q.ref ELSE dataCache
     IN /\ dataCache' = dc
        /\ lastSyncTime' = IF ok THEN clock ELSE lastSyncTime
        /\ reqs' = [Kept EXCEPT ![r] = q2]
        /\ heap' = Collect(heap, dc, [reqs EXCEPT ![r] = q2])
        /\ run' = RunAfter(q2)
        /\ lastGood' = IF ok THEN store ELSE lastGood
        /\ syncInProgress' = SyncAfterUpdate(ok)
  /\ UNCHANGED <<variant, store, clock, nreq, running, isWriting, token, boot,
                 lastMut, lastSave>>

\* initializeData: the response of the startup fetchGist arrives.
BootFetched ==
  /\ variant = "gist" /\ running = 0 /\ boot.pc = "fetching"
  /\ LET f == FetchReturn(boot.resp)
     IN /\ dataCache' = f.dc
        /\ lastSyncTime' = f.lst
        /\ heap' = Collect(f.heap, f.dc, reqs)
        /\ lastGood' = IF f.ok THEN f.heap[f.ret] ELSE lastGood
  /\ boot' = [boot EXCEPT !.pc = "idle", !.resp = None,
                           !.ok = FetchReturn(boot.resp).ok]
  /\ UNCHANGED <<variant, store, clock, nreq, reqs, running, isWriting, token,
                 syncInProgress, lastMut, lastSave, run>>

\* `Date.now() - lastSyncTime > 4 * 60 * 1000`
Stale == clock - lastSyncTime > StaleAfter

\* The callback of setInterval in initializeData, armed once the startup
\* fetchGist has returned: `if (Date.now() - lastSyncTime > 4 min) await
\* fetchGist()`.  When the test holds fetchGist is called: without a token
\* it returns at once and nothing changes, with one the GET is sent.
GistRefresh(netOk) ==
  /\ variant = "gist" /\ running = 0 /\ boot.pc = "idle"
  /\ boot' = IF ~Stale
             THEN [boot EXCEPT !.tick = "skip", !.since = clock - lastSyncTime]
             ELSE [pc |-> IF token THEN "refreshing" ELSE "idle",
                   resp |-> IF token THEN GistGet(netOk) ELSE None,
                   tick |-> "load", since |-> clock - lastSyncTime,
                   ok |-> boot.ok]
  /\ UNCHANGED <<variant, store, clock, nreq, reqs, running, isWriting, token,
                 dataCache, heap, lastSyncTime, syncInProgress, lastMut,
                 lastSave, run, lastGood>>

\* Time passes: Date.now() is d minutes later.
Pass(d) ==
  /\ clock + d <= MaxTime
  /\ clock' = clock + d
  /\ UNCHANGED <<variant, store, nreq, reqs, running, isWriting, token,
                 dataCache, heap, lastSyncTime, syncInProgress, boot, lastMut,
                 lastSave, run, lastGood>>

\* The response of the timer's GET arrives: fetchGist goes on.
GistRefreshed ==
  /\ variant = "gist" /\ running = 0 /\ boot.pc = "refreshing"
  /\ LET f == FetchReturn(boot.resp)
     IN /\ dataCache' = f.dc
        /\ lastSyncTime' = f.lst
        /\ heap' = Collect(f.heap, f.dc, reqs)
        /\ lastGood' = IF f.ok THEN f.heap[f.ret] ELSE lastGood
  /\ boot' = [boot EXCEPT !.pc = "idle", !.resp = None,
                           !.ok = FetchReturn(boot.resp).ok]
  /\ UNCHANGED <<variant, store, clock, nreq, reqs, running, isWriting, token,
                 syncInProgress, lastMut, lastSave, run>>

\* ----------------------------------------------- variant "firestore"
\* store.links is the links collection, newest createdAt first (the order
\* of GET /api/links); store.activities the activities collection, newest
\* first.  Every `await` of a handler is one call of the Firestore SDK, which
\* the backend serves atomically; `ok` is whether the backend served it.
\* The handler goes on when the response of the call has come back: it
\* sends its next call, or, after the last one or an error, its answer
\* (pc "answer200", "answer500": the answer its callback will send).
\* Document ids and server timestamps are drawn from the clock.
HasDoc(id) == id \in Ids(store.links)
DocOf(id) == store.links[FindIndex(store.links, id) + 1]

\* db.collection('activities').add({type, linkName, linkId, timestamp})
FireAddActivity(r, q, ty, ok) ==
  IF ok
  THEN /\ store' = [store EXCEPT !.activities =
                      Unshift(@, Activity(clock, ty, q.linkName, q.id, clock))]
       /\ clock' = clock + 1
       /\ reqs' = [Kept EXCEPT ![r] = [q EXCEPT !.actId = clock,
                                               !.actSaved = TRUE]]
  ELSE /\ reqs' = [Kept EXCEPT ![r] = [q EXCEPT !.pc = "answer500",
                                               !.backendErr = TRUE]]
       /\ UNCHANGED <<store, clock>>

\* The call is rejected, or what it returned makes the handler throw: the
\* catch block of the handler will answer 500.  served: the backend served
\* the call, and the error is a NOT_FOUND or a TypeError.
Fire500(r, q, served) ==
  /\ reqs' = [Kept EXCEPT ![r] = [q EXCEPT !.pc = "answer500",
                                          !.backendErr = ~served]]
  /\ UNCHANGED <<store, clock>>

\* The first call of a handler.
\*   POST:   db.collection('links').add(newLink)
\*   PUT:    doc(id).update(updatedLink); update rejects (NOT_FOUND) when the
\*           document does not exist
\*   DELETE: doc(id).get(); linkDoc.data() is undefined when the document
\*           does not exist, and `.name` of it throws
\*   click:  linkRef.update({clicks: increment(1)})
FireStart(r, op, id, b, ok) ==
  /\ variant = "firestore" /\ running = 0 /\ Fresh(r)
  /\ LET q == [NewReq(r) EXCEPT !.op = op, !.id = id, !.body = b,
                               !.seen = Ids(store.links)]
         idx == FindIndex(store.links, id)
     IN CASE ~ok -> Fire500(r, q, FALSE)
          [] ok /\ op = "post" ->
               /\ store' = [store EXCEPT !.links =
                              Unshift(@, Link(clock, b, 0, clock, clock, FALSE))]
               /\ clock' = clock + 1
               /\ reqs' = [Kept EXCEPT ![r] =
                             [q EXCEPT !.pc = "addAct", !.id = clock,
                                       !.newId = clock, !.linkName = b.name,
                                       !.linkSaved = TRUE]]
          [] ok /\ op = "put" ->
               IF ~HasDoc(id) THEN Fire500(r, q, TRUE)
               ELSE /\ store' = [store EXCEPT !.links[idx + 1] =
                                   Link(id, b, @.clicks, @.createdAt, clock,
                                        FALSE)]
                    /\ reqs' = [Kept EXCEPT ![r] =
                                  [q EXCEPT !.pc = "addAct",
                                            !.linkName = b.name,
                                            !.linkSaved = TRUE]]
                    /\ UNCHANGED clock
          [] ok /\ op = "delete" ->
               IF ~HasDoc(id) THEN Fire500(r, q, TRUE)
               ELSE /\ reqs' = [Kept EXCEPT ![r] =
                                  [q EXCEPT !.pc = "delete",
                                            !.linkName = DocOf(id).name]]
                    /\ UNCHANGED <<store, clock>>
          [] ok /\ op = "click" ->
               IF ~HasDoc(id) THEN Fire500(r, q, TRUE)
               ELSE /\ store' = [store EXCEPT !.links[idx + 1].clicks = @ + 1]
                    /\ reqs' = [Kept EXCEPT ![r] =
                                  [q EXCEPT !.pc = "get", !.linkSaved = TRUE]]
                    /\ UNCHANGED clock
  /\ nreq' = nreq + 1
  /\ UNCHANGED <<variant, running, isWriting, token, dataCache, heap,
                 lastSyncTime, syncInProgress, boot, lastMut, lastSave, run,
                 lastGood>>

\* The next call of a handler that is under way; after the last one the
\* response is still to come back (FireAnswer).
\*   POST:   activities.add                     then res.json(savedLink)
\*   PUT:    activities.add, doc(id).get()      then res.json(savedLink)
\*   DELETE: doc(id).delete(), activities.add   then res.json({success: true})
\*   click:  linkRef.get(), activities.add      then res.json({clicks})
FireStep(r, ok) ==
  /\ variant = "firestore" /\ running = 0
  /\ reqs[r].pc \in {"addAct", "get", "delete"}
  /\ LET q == reqs[r]
         q200 == [q EXCEPT !.pc = "answer200"]
         ty == CASE q.op = "post" -> "added" [] q.op = "put" -> "edited"
                 [] q.op = "delete" -> "deleted" [] q.op = "click" -> "clicked"
     IN CASE q.pc = "addAct" ->
               FireAddActivity(r, [q EXCEPT !.pc = IF q.op = "put" THEN "get"
                                                   ELSE "answer200"], ty, ok)
          [] q.pc = "get" /\ q.op = "put" ->
               IF ok THEN reqs' = [Kept EXCEPT ![r] = q200]
                          /\ UNCHANGED <<store, clock>>
               ELSE Fire500(r, q, FALSE)
          [] q.pc = "get" /\ q.op = "click" ->
               IF ok /\ HasDoc(q.id)
               THEN /\ reqs' = [Kept EXCEPT ![r] =
                                  [q EXCEPT !.pc = "addAct",
                                            !.linkName = DocOf(q.id).name]]
                    /\ UNCHANGED <<store, clock>>
               ELSE Fire500(r, q, ok)
          [] q.pc = "delete" ->
               IF ok
               THEN /\ store' = [store EXCEPT !.links =
                                   IF HasDoc(q.id)
                                   THEN Splice(@, FindIndex(@, q.id)) ELSE @]
                    /\ reqs' = [Kept EXCEPT ![r] =
                                  [q EXCEPT !.pc = "addAct",
                                            !.linkSaved = TRUE]]
                    /\ UNCHANGED clock
               ELSE Fire500(r, q, FALSE)
  /\ lastSave' = IF store' # store THEN "mutation" ELSE lastSave
  /\ UNCHANGED <<variant, nreq, running, isWriting, token, dataCache, heap,
                 lastSyncTime, syncInProgress, boot, lastMut, run, lastGood>>

\* The response of the last call, or of the call that failed, has come back:
\* res.json(...), or res.status(500) in the catch block.
FireAnswer(r) ==
  /\ variant = "firestore" /\ running = 0
  /\ reqs[r].pc \in {"answer200", "answer500"}
  /\ LET q2 == [reqs[r] EXCEPT !.pc = "done",
                               !.status = IF reqs[r].pc = "answer200"
                                          THEN 200 ELSE 500]
     IN /\ reqs' = [Kept EXCEPT ![r] = q2]
        /\ run' = RunAfter(q2)
  /\ UNCHANGED <<variant, store, clock, nreq, running, isWriting, token,
                 dataCache, heap, lastSyncTime, syncInProgress, boot, lastMut,
                 lastSave, lastGood>>

\* POST /api/import: 400 unless req.body.links is an array; else one
\* batch.set per element on a new document (clicks: link.clicks || 0, no
\* activity) and one batch.commit, which stores them all or none.
ImportLinks ==
  <<[body |-> PostBody, clicks |-> 0], [body |-> PutBody, clicks |-> 7]>>
ImportInputs == {None, Snap(ImportLinks, <<>>)}
\* the collection after the commit at server time t; the new documents get
\* the ids i, i + 1, ...
RECURSIVE Imported(_, _, _, _)
Imported(links, ls, i, t) ==
  IF ls = <<>> THEN links
  ELSE Imported(Unshift(links, Link(i, Head(ls).body, Head(ls).clicks, t, t,
                                    FALSE)),
                Tail(ls), i + 1, t)
FireImport(r, d, ok) ==
  /\ variant = "firestore" /\ running = 0 /\ Fresh(r)
  /\ LET q == [NewReq(r) EXCEPT !.op = "import", !.seen = Ids(store.links)]
     IN IF d.kind = "none"
        THEN /\ reqs' = [Kept EXCEPT ![r] = [q EXCEPT !.pc = "done",
                                                     !.status = 400]]
             /\ UNCHANGED <<store, clock, lastSave>>
        ELSE IF ~ok
        THEN Fire500(r, q, FALSE) /\ UNCHANGED lastSave
        ELSE /\ store' = [store EXCEPT !.links = Imported(@, d.links, clock, clock)]
             /\ clock' = clock + Len(d.links)
             /\ lastSave' = "import"
             /\ reqs' = [Kept EXCEPT ![r] = [q EXCEPT !.pc = "answer200",
                                                     !.linkSaved = TRUE]]
  /\ nreq' = nreq + 1
  /\ UNCHANGED <<variant, running, isWriting, token, dataCache, heap,
                 lastSyncTime, syncInProgress, boot, lastMut, run, lastGood>>

\* --------------------------------------------------------------- Next
\* The inputs of a request: POST takes a body, PUT an id and a body, DELETE
\* and click an id.
Inputs ==
  {<<"post", 0, PostBody>>}
  \cup {<<"put", i, PutBody>> : i \in TargetIds}
  \cup {<<op, i, NoBody>> : op \in {"delete", "click"}, i \in TargetIds}

FileRequest ==
  \E r \in Slots, in \in Inputs, wrOk \in BOOLEAN :
    FileMutate(r, in[1], in[2], in[3], wrOk)

\* gist: GET /api/links or /api/activities, and POST /api/sync
ReadInputs == {<<"get", 0, NoBody>>, <<"sync", 0, NoBody>>}

GistRequest ==
  \E r \in Slots, in \in Inputs \cup ReadInputs, netOk \in BOOLEAN :
    GistStart(r, in[1], in[2], in[3], netOk)

GistFetchedStep == \E r \in Slots : GistFetched(r)

GistPatchServeStep == \E r \in Slots, ok \in BOOLEAN : GistPatchServe(r, ok)

GistPatchedStep == \E r \in Slots : GistPatched(r)

FireRequest ==
  \E r \in Slots, in \in Inputs, ok \in BOOLEAN :
    FireStart(r, in[1], in[2], in[3], ok)

FireStepAny == \E r \in Slots, ok \in BOOLEAN : FireStep(r, ok)

FireAnswerStep == \E r \in Slots : FireAnswer(r)

FireImportRequest ==
  \E r \in Slots, d \in ImportInputs, ok \in BOOLEAN : FireImport(r, d, ok)

FileGetRequest == \E r \in Slots : FileGet(r)

LockedGetRequest == \E r \in Slots : LockedGet(r)

LockedRequest ==
  \E r \in Slots, in \in Inputs :
    LockedMutate(r, in[1], in[2], in[3])

LockedRestoreRequest ==
  \E r \in Slots, d \in RestoreInputs : LockedRestore(r, d)

LockedWriteStep == \E r \in Slots, wrOk \in BOOLEAN : LockedWrite(r, wrOk)

LockedTimerStep == \E r \in Slots : LockedTimer(r)

Next ==
  \/ nreq < MaxOps /\ FileRequest
  \/ nreq < MaxOps /\ FileGetRequest
  \/ nreq < MaxOps /\ LockedRequest
  \/ nreq < MaxOps /\ LockedGetRequest
  \/ nreq < MaxOps /\ LockedRestoreRequest
  \/ LockedWriteStep
  \/ LockedTimerStep
  \/ nreq < MaxOps /\ GistRequest
  \/ GistFetchedStep
  \/ GistPatchServeStep
  \/ GistPatchedStep
  \/ BootFetched
  \/ nreq < MaxOps /\ FireRequest
  \/ nreq < MaxOps /\ FireImportRequest
  \/ FireStepAny
  \/ FireAnswerStep

Spec == Init /\ [][Next]_vars

\* ------------------------------------------ scenario: a row of clicks
\* SpecClicks: a file server that starts without links; one link is added
\* and then requests are made one after the other (the next one is sent when
\* the previous one has been answered): clicks on the new link (id 2) and on
\* an id that does not exist (id 1).
InitClicks ==
  /\ variant \in {"file", "locked"}
  /\ store \in {Snap(<<>>, OldActs(k)) : k \in {0, CapFile - 1}}
  /\ clock = 2
  /\ nreq = 0
  /\ reqs = [r \in Slots |-> EmptyReq]
  /\ running = 0
  /\ isWriting = FALSE
  /\ token = FALSE
  /\ dataCache = 0
  /\ heap = [o \in 0..Cardinality(Slots) |-> None]
  /\ lastSyncTime = clock
  /\ syncInProgress = FALSE
  /\ boot = NoBoot
  /\ lastMut = NoMut
  /\ lastSave = "init"
  /\ run = NoRun
  /\ lastGood = EmptySnap

ClickInputs ==
  IF run = NoRun THEN {<<"post", 0, PostBody>>}
  ELSE {<<"click", i, NoBody>> : i \in TargetIds}

FileClickRequest ==
  \E r \in Slots, in \in ClickInputs, wrOk \in BOOLEAN :
    FileMutate(r, in[1], in[2], in[3], wrOk)

LockedClickRequest ==
  \E r \in Slots, in \in ClickInputs : LockedMutate(r, in[1], in[2], in[3])

AllAnswered == \A r \in Slots : Free(r)

NextClicks ==
  \/ nreq < MaxClickOps /\ AllAnswered /\ FileClickRequest
  \/ nreq < MaxClickOps /\ AllAnswered /\ LockedClickRequest
  \/ LockedWriteStep
  \/ LockedTimerStep

SpecClicks == InitClicks /\ [][NextClicks]_vars

\* ------------------------------- scenario: loads of the Gist variant
\* SpecRefresh: a Gist server whose links.json holds a Snapshot, malformed
\* text, null or {} at startup; reads, adds and clicks arrive while the
\* refresh timer of initializeData fires.
GistContents == {Snap(InitLinks, OldActs(1)), Corrupt, JsonNull, NoLinks}

InitRefresh ==
  /\ variant = "gist"
  /\ store \in GistContents
  /\ clock = 2
  /\ nreq = 0
  /\ reqs = [r \in Slots |-> EmptyReq]
  /\ running = 0
  /\ isWriting = FALSE
  /\ token \in BOOLEAN
  /\ dataCache = 0
  /\ heap = [o \in 0..Cardinality(Slots) |-> IF o = 0 THEN EmptySnap ELSE None]
  /\ lastSyncTime = clock
  /\ syncInProgress = FALSE
  /\ boot \in IF token
              THEN {[pc |-> "fetching", resp |-> IF netOk THEN store ELSE Failed,
                    tick |-> "none", since |-> 0, ok |-> TRUE] :
                      netOk \in BOOLEAN}
              ELSE {NoBoot}
  /\ lastMut = NoMut
  /\ lastSave = "init"
  /\ run = RunOff
  /\ lastGood = EmptySnap

RefreshInputs ==
  ReadInputs \cup {<<"post", 0, PostBody>>, <<"click", 1, NoBody>>}

GistRefreshRequest ==
  \E r \in Slots, in \in RefreshInputs, netOk \in BOOLEAN :
    GistStart(r, in[1], in[2], in[3], netOk)

GistRefreshStep == \E netOk \in BOOLEAN : GistRefresh(netOk)

\* a wait up to the threshold of the timer's test, and one of its period
PassSteps == {StaleAfter, TimerPeriod}
PassStep == \E d \in PassSteps : Pass(d)

NextRefresh ==
  \/ nreq < MaxRefreshOps /\ GistRefreshRequest
  \/ GistFetchedStep
  \/ GistPatchServeStep
  \/ GistPatchedStep
  \/ BootFetched
  \/ GistRefreshStep
  \/ GistRefreshed
  \/ PassStep

SpecRefresh == InitRefresh /\ [][NextRefresh]_vars

\* ------------------------------------ scenario: pending callbacks run
\* Every backend call returns and every timer fires: a callback that is
\* pending is run.  Nothing obliges a client to send a request.
Pending ==
  /\ \A r \in Slots : WF_vars(\E wrOk \in BOOLEAN : LockedWrite(r, wrOk))
  /\ \A r \in Slots : WF_vars(LockedTimer(r))
  /\ \A r \in Slots : WF_vars(GistFetched(r))
  /\ \A r \in Slots : WF_vars(\E ok \in BOOLEAN : GistPatchServe(r, ok))
  /\ \A r \in Slots : WF_vars(GistPatched(r))
  /\ \A r \in Slots : WF_vars(\E ok \in BOOLEAN : FireStep(r, ok))
  /\ \A r \in Slots : WF_vars(FireAnswer(r))
  /\ WF_vars(BootFetched)

\* SpecLive: a server of any variant under that assumption; the gist holds
\* a short activities sequence and is sent the requests of SpecRefresh.
InitLive ==
  /\ variant \in Variants
  /\ store \in IF variant = "gist" THEN {Snap(InitLinks, OldActs(1))}
              ELSE InitStores(variant)
  /\ clock = 2
  /\ nreq = 0
  /\ reqs = [r \in Slots |-> EmptyReq]
  /\ running = 0
  /\ isWriting = FALSE
  /\ token \in IF variant = "gist" THEN BOOLEAN ELSE {FALSE}
  /\ dataCache = 0
  /\ heap = [o \in 0..Cardinality(Slots) |->
               IF variant = "gist" /\ o = 0 THEN EmptySnap ELSE None]
  /\ lastSyncTime = clock
  /\ syncInProgress = FALSE
  /\ boot \in IF token
              THEN {[pc |-> "fetching", resp |-> IF netOk THEN store ELSE Failed,
                    tick |-> "none", since |-> 0, ok |-> TRUE] :
                      netOk \in BOOLEAN}
              ELSE {NoBoot}
  /\ lastMut = NoMut
  /\ lastSave = "init"
  /\ run = RunOff
  /\ lastGood = EmptySnap

NextLive ==
  \/ nreq < MaxOps /\ FileRequest
  \/ nreq < MaxOps /\ LockedRequest
  \/ nreq < MaxOps /\ LockedRestoreRequest
  \/ LockedWriteStep
  \/ LockedTimerStep
  \/ nreq < MaxOps /\ GistRefreshRequest
  \/ GistFetchedStep
  \/ GistPatchServeStep
  \/ GistPatchedStep
  \/ BootFetched
  \/ nreq < MaxOps /\ FireRequest
  \/ nreq < MaxOps /\ FireImportRequest
  \/ FireStepAny
  \/ FireAnswerStep

SpecLive == InitLive /\ [][NextLive]_vars /\ Pending

\* ============================================================ claims
ActIds(acts) == {acts[i].id : i \in 1..Len(acts)}
Occurrences(links, id) == Cardinality({i \in 1..Len(links) : links[i].id = id})
\* the request in slot r has been answered; the timer of an unawaited
\* writeData may still be pending
Done(r) == reqs[r].status # 0
\* the step answers the request in slot r: one that was under way, or one
\* that arrives in the step and is answered in it
Answers(r) ==
  /\ reqs'[r].status # 0
  /\ \/ reqs[r].status = 0 /\ reqs[r].pc \notin {"idle", "done"}
     \/ Fresh(r) /\ nreq' = nreq + 1

\* C1 (as claimed): gist; when two POST /api/links requests that were under
\* way together have both answered 200, links.json holds both new links,
\* each exactly once.
C1_BothLinksKept ==
  (/\ variant = "gist"
   /\ nreq = 2
   /\ \A r \in Slots : Done(r) /\ reqs[r].op = "post" /\ reqs[r].status = 200)
  => \A r \in Slots : /\ store.kind = "snap"
                      /\ Occurrences(store.links, reqs[r].newId) = 1

\* C2 (as claimed): gist; when a mutating request whose updateGist returned
\* false is answered, it is answered with an error status and the content of
\* dataCache is what it was before the request changed anything.
C2_FailedSaveLeavesCache ==
  [][\A r \in Slots :
       (variant = "gist" /\ Answers(r) /\ reqs'[r].updFalse)
       => /\ reqs'[r].status = 500
          /\ heap'[dataCache'] = reqs'[r].cacheBefore]_vars

\* C3: at most one backend save is in flight: gist, at most one updateGist
\* is between `syncInProgress = true` and the reset of the flag; locked, at
\* most one writeData is between `isWriting = true` and the reset.
Saving(r) ==
  \/ variant = "gist" /\ reqs[r].pc \in {"patching", "patchOk", "patchErr"}
  \/ variant = "locked" /\ reqs[r].pc = "writing"
C3_OneSaveInFlight == Cardinality({r \in Slots : Saving(r)}) <= 1

\* a PATCH is in flight and another request's updateGist was refused
C3_Witness ==
  \E r, q \in Slots :
    /\ Saving(r) /\ variant = "gist"
    /\ Done(q) /\ reqs[q].updFalse /\ reqs[q].saves = 0

\* C4 (as claimed): gist; while the save of a request's change has not been
\* stored by the backend, dataCache does not hold the change.
C4_CacheOnlyAfterAck ==
  \A r \in Slots :
    (variant = "gist" /\ ~Done(r) /\ reqs[r].actId # 0 /\ ~reqs[r].actSaved)
    => reqs[r].actId \notin ActIds(heap[dataCache].activities)

\* C5 (as claimed): file, locked, gist; whenever the durable Snapshot was
\* written by a mutation, it holds at most CAP activities, also after a
\* POST /api/restore.
C5_ActivitiesCapped ==
  (variant \in {"file", "locked", "gist"} /\ lastSave = "mutation")
  => Len(store.activities) <= Cap(variant)

\* C6: a mutation applied to a Snapshot that holds CAP activities puts the
\* new activity at the head and removes the last one only: the result is the
\* new activity followed by the first CAP - 1 old ones, in their order.
C6_EvictsOldest ==
  (lastMut.op # "none" /\ Len(lastMut.pre.activities) = Cap(variant))
  => /\ Len(lastMut.post.activities) = Cap(variant)
     /\ Head(lastMut.post.activities).id \notin ActIds(lastMut.pre.activities)
     /\ Tail(lastMut.post.activities)
          = SubSeq(lastMut.pre.activities, 1, Cap(variant) - 1)

C6_Witness ==
  /\ lastMut.op # "none"
  /\ Len(lastMut.pre.activities) = Cap(variant)
  /\ variant \in {"file", "locked", "gist"}

C8_FirestoreAbsentIs404 ==
  \A r \in Slots :
    (/\ variant = "firestore" /\ Done(r) /\ ~reqs[r].backendErr
     /\ reqs[r].op \in IdOps /\ reqs[r].id \notin reqs[r].seen)
    => reqs[r].status = 404 /\ reqs[r].actId = 0

\* C9: N successful clicks in a row on a freshly added link.
RunLink == store.links[FindIndex(store.links, run.id) + 1]
ClickedSince(acts, name, after) ==
  Cardinality({i \in 1..Len(acts) : /\ acts[i].type = "clicked"
                                   /\ acts[i].linkName = name
                                   /\ acts[i].id > after})
RunClicked == ClickedSince(store.activities, RunLink.name, run.id)

\* C9 (as claimed): for every N the link has clicks = N and the activities
\* hold N records of type clicked for it.
C9_ClicksAndActivities ==
  run.id > 0 => RunLink.clicks = run.n /\ RunClicked = run.n

\* C9 (amended): the link has clicks = N for every N, and the activities
\* hold N records of type clicked for it as long as N <= CAP.
C9_ClicksAndActivitiesUpToCap ==
  run.id > 0 => /\ RunLink.clicks = run.n
                /\ run.n <= Cap(variant) => RunClicked = run.n

C9_Witness ==
  run.id > 0 /\ run.n = Cap(variant) /\ RunClicked = Cap(variant)

\* C10 (as claimed): every variant; when a request has been answered, its
\* link change and its activity are both durable or neither is.
C10_LinkAndActivityTogether ==
  \A r \in Slots : Done(r) => (reqs[r].linkSaved <=> reqs[r].actSaved)

\* C11 (as claimed): gist; a request whose fetchGist could not load the
\* content (request error, links.json missing or malformed, no token) got
\* from it the content of the last load or save that succeeded, with
\* dataCache and lastSyncTime left as they were, and a GET is answered 200.
C11_FailedLoadFallsBack ==
  \A r \in Slots :
    (variant = "gist" /\ Done(r) /\ reqs[r].loadFailed)
    => /\ reqs[r].gotGood
       /\ reqs[r].cacheKept
       /\ reqs[r].op = "get" => reqs[r].status = 200

\* C12 (as claimed): file, locked; a GET that found malformed content in
\* the data file (text that is no JSON, or JSON that is no Snapshot) is
\* answered 200 with the links and activities of the empty Snapshot.
C12_MalformedFileReadsEmpty ==
  \A r \in Slots :
    (/\ variant \in {"file", "locked"} /\ Done(r) /\ reqs[r].op = "get"
     /\ reqs[r].loadFailed)
    => reqs[r].status = 200 /\ reqs[r].out = EmptySnap

\* C13 (as claimed): locked; a writeData call of a mutating handler makes at
\* most 3 write attempts, and when all of them have failed the handler
\* answers 500.
C13_ThreeAttempts ==
  \A r \in Slots :
    (variant = "locked" /\ reqs[r].op \in MutOps)
    => /\ reqs[r].saves <= 3
       /\ (Done(r) /\ reqs[r].saves > 0 /\ ~reqs[r].linkSaved)
            => reqs[r].status = 500

\* C13 (amended): the call makes at most DefaultRetries + 1 write attempts,
\* the first one and DefaultRetries retries; when every attempt has failed
\* it has made that many and the handler answers 500.
C13_RetriesPlusOneAttempts ==
  \A r \in Slots :
    (variant = "locked" /\ reqs[r].op \in MutOps)
    => /\ reqs[r].saves <= DefaultRetries + 1
       /\ (Done(r) /\ reqs[r].saves > 0 /\ ~reqs[r].linkSaved)
            => reqs[r].status = 500 /\ reqs[r].saves = DefaultRetries + 1

C13_Witness ==
  \E r \in Slots :
    /\ variant = "locked" /\ reqs[r].op \in MutOps /\ Done(r)
    /\ reqs[r].status = 500 /\ reqs[r].saves = DefaultRetries + 1

\* C14 (as claimed): gist, locked; a mutating request whose save found
\* another save in flight, and whose backend calls were all served, ends
\* with its change durable and is answered 200.
C14_BusySaveRetried ==
  \A r \in Slots :
    (/\ variant \in {"gist", "locked"} /\ Done(r)
     /\ reqs[r].busy /\ ~reqs[r].backendErr)
    => /\ reqs[r].status = 200
       /\ reqs[r].linkSaved /\ reqs[r].actSaved

\* C15 (as claimed): gist; while syncInProgress is true the refresh timer
\* sends no GET, and no response of a GET it sent assigns dataCache.
C15_RefreshSkipsDuringSave ==
  [][(variant = "gist" /\ syncInProgress)
     => /\ ~(boot.pc = "idle" /\ boot'.pc = "refreshing")
        /\ ~(boot.pc = "refreshing" /\ boot'.pc = "idle"
                /\ dataCache' # dataCache)]_vars

\* C16: the flag of a save is set exactly while a save is executing: gist,
\* syncInProgress is true only between the PATCH of an updateGist and its
\* return; locked, isWriting is true only inside an attempt of writeData.
C16_FlagReleased ==
  /\ syncInProgress <=> (variant = "gist" /\ \E r \in Slots : Saving(r))
  /\ isWriting <=> (variant = "locked" /\ \E r \in Slots : Saving(r))

\* a save has ended with a backend error and the flag is false
C16_Witness ==
  \E r \in Slots :
    /\ Done(r) /\ reqs[r].backendErr /\ reqs[r].saves > 0
    /\ variant \in {"gist", "locked"}
    /\ ~syncInProgress /\ ~isWriting

\* C17 (as claimed): file, locked, gist; requests made one after the other.
\* A POST answered 200 sent a link with clicks 0; the GET that follows it is
\* answered with that link first, and with activities that are the ones
\* before the POST behind one new entry of type added that carries the
\* submitted name.
C17_PostThenGet ==
  \A r \in Slots :
    (variant \in {"file", "locked", "gist"} /\ Lone(r))
    => /\ (reqs[r].op = "post" /\ reqs[r].status = 200)
          => /\ Len(reqs[r].out.links) = 1
             /\ reqs[r].out.links[1].id = reqs[r].newId
             /\ reqs[r].out.links[1].clicks = 0
       /\ (reqs[r].op = "get" /\ reqs[r].after # 0)
          => LET out == reqs[r].out
                 pre == lastMut.pre.activities
             IN /\ reqs[r].status = 200
                /\ Len(out.links) > 0
                /\ out.links[1].id = reqs[r].after
                /\ Len(out.activities) > 0
                /\ Head(out.activities).type = "added"
                /\ Head(out.activities).linkName = PostBody.name
                /\ Len(out.activities) \in {Len(pre), Len(pre) + 1}
                /\ Tail(out.activities)
                     = SubSeq(pre, 1, Len(out.activities) - 1)

\* C18 (as claimed): gist, locked; from one durable Snapshot to the next, a
\* link that is in both does not lose clicks.
C18_ClicksNeverDecrease ==
  [][(variant \in {"gist", "locked"}
      /\ store.kind = "snap" /\ store'.kind = "snap")
     => \A i \in 1..Len(store.links), j \in 1..Len(store'.links) :
          store.links[i].id = store'.links[j].id
          => store'.links[j].clicks >= store.links[i].clicks]_vars

\* C19 (as claimed): gist; dataCache is always a Snapshot, an object with a
\* links sequence and an activities sequence.
C19_CacheWellFormed ==
  variant = "gist" => heap[dataCache].kind = "snap"

\* C20 (as claimed): file, locked, gist.  A mutation that is applied puts
\* exactly one activity in front of the ones it loaded, of the type of the
\* operation and with the submitted name (add, update) or the name of the
\* link it found (delete, click); a request answered 200 has its activity
\* durable; a request answered with an error has no activity in the durable
\* content.
TypeOf(op) ==
  CASE op = "post" -> "added" [] op = "put" -> "edited"
    [] op = "delete" -> "deleted" [] op = "click" -> "clicked"
NameOf(m) ==
  IF m.op \in {"post", "put"} THEN m.body.name
  ELSE m.pre.links[FindIndex(m.pre.links, m.id) + 1].name
C20_OneActivityPerMutation ==
  variant \in {"file", "locked", "gist"}
  => /\ lastMut.op # "none"
        => LET pre == lastMut.pre.activities
               post == lastMut.post.activities
           IN /\ Len(post) > 0
              /\ Head(post).type = TypeOf(lastMut.op)
              /\ Head(post).linkName = NameOf(lastMut)
              /\ Head(post).id \notin ActIds(pre)
              /\ Len(post) \in {Len(pre), Len(pre) + 1}
              /\ Tail(post) = SubSeq(pre, 1, Len(post) - 1)
     /\ \A r \in Slots :
          (Done(r) /\ reqs[r].op \in MutOps)
          => /\ reqs[r].status = 200 => reqs[r].actId # 0 /\ reqs[r].actSaved
             /\ (reqs[r].status # 200 /\ store.kind = "snap")
                  => \/ reqs[r].actId = 0
                     \/ reqs[r].actId \notin ActIds(store.activities)

\* C21: every variant, every backend call returning and every timer firing;
\* a request that is under way is answered in the end, with success or with
\* an error, whatever writes fail and whatever requests run beside it; in
\* the locked variant the promise of writeData is settled by then.
C21_EveryRequestAnswered ==
  \A r \in Slots : (reqs[r].pc \notin {"idle", "done"}) ~> (reqs[r].pc = "done")

\* a locked mutation is answered 200 after a failed write and a retry
C21_Witness ==
  \E r \in Slots :
    /\ variant = "locked" /\ Done(r) /\ reqs[r].op \in MutOps
    /\ reqs[r].status = 200 /\ reqs[r].saves > 1

\* C22 (as claimed): gist; a GET that arrives while lastSyncTime is at most
\* 4 minutes old is answered 200 at once with the links or activities of
\* dataCache, and no request is sent to the gist for it.
C22_FreshReadFromCache ==
  [][\A r \in Slots :
       (/\ variant = "gist" /\ ~Stale
        /\ Fresh(r) /\ nreq' = nreq + 1 /\ reqs'[r].op = "get")
       => /\ reqs'[r].pc = "done"
          /\ reqs'[r].status = 200
          /\ reqs'[r].out = heap[dataCache]]_vars

\* C23 (as claimed): gist; a run of the timer's callback calls fetchGist if
\* and only if it finds lastSyncTime more than 4 minutes old; and a step
\* that changes lastSyncTime is the return of a load that succeeded or of a
\* save that succeeded.
SyncSucceeds ==
  \/ \E r \in Slots : /\ reqs[r].pc = "fetching" /\ reqs[r].resp.kind = "snap"
                       /\ reqs'[r].pc # "fetching"
  \/ \E r \in Slots : reqs[r].pc = "patchOk" /\ reqs'[r].pc = "done"
  \/ /\ boot.pc \in {"fetching", "refreshing"} /\ boot.resp.kind = "snap"
     /\ boot'.pc = "idle"
C23_TimerAndSyncTime ==
  /\ [](variant = "gist" /\ boot.tick # "none"
         => (boot.tick = "load" <=> boot.since > StaleAfter))
  /\ [][(variant = "gist" /\ lastSyncTime' # lastSyncTime)
         => SyncSucceeds]_vars

\* The request in slot r was answered 200, no mutation was applied after its
\* own, and the durable content is what its save stored: lastMut.pre is the
\* Snapshot it loaded and store the one it persisted.
LastStored(r) ==
  /\ Done(r) /\ reqs[r].status = 200 /\ reqs[r].actId # 0
  /\ lastMut.op = reqs[r].op /\ lastMut.id = reqs[r].id
  /\ Head(lastMut.post.activities).id = reqs[r].actId
  /\ store.kind = "snap" /\ Len(store.activities) > 0
  /\ Head(store.activities).id = reqs[r].actId

\* C24: file, locked, gist; the Snapshot a successful PUT persists has the
\* links of the Snapshot it loaded, in their places; the link with the id
\* has the submitted name, url, description and category and a new
\* updatedAt (permanent is set in the gist variant), and its id, clicks and
\* createdAt are the old ones; every other link is as it was.
C24_PutChangesOnlyItsFields ==
  \A r \in Slots :
    (variant \in {"file", "locked", "gist"} /\ reqs[r].op = "put"
     /\ LastStored(r))
    => LET pre == lastMut.pre.links
           now == store.links
           k == CHOOSE i \in 1..Len(pre) :
                  pre[i].id = reqs[r].id /\ \A j \in 1..(i - 1) : pre[j].id # reqs[r].id
       IN /\ Len(now) = Len(pre)
          /\ \A j \in 1..Len(pre) : j # k => now[j] = pre[j]
          /\ now[k].id = pre[k].id
          /\ now[k].clicks = pre[k].clicks
          /\ now[k].createdAt = pre[k].createdAt
          /\ now[k].name = reqs[r].body.name
          /\ now[k].url = reqs[r].body.url
          /\ now[k].description = reqs[r].body.description
          /\ now[k].category = reqs[r].body.category
          /\ now[k].updatedAt > pre[k].updatedAt
          /\ now[k].permanent = (pre[k].permanent \/ variant = "gist")

\* a PUT of the second of two links has been persisted
C24_Witness ==
  \E r \in Slots :
    /\ variant \in {"file", "locked", "gist"} /\ reqs[r].op = "put"
    /\ LastStored(r)
    /\ Len(lastMut.pre.links) = 2 /\ lastMut.pre.links[2].id = reqs[r].id
    /\ lastMut.pre.links[2].createdAt # Head(lastMut.post.activities).timestamp

\* C25: file, locked, gist; the Snapshot a successful DELETE persists has the
\* links of the Snapshot it loaded without the one link with the id: the
\* others are there with the same values and in the same order.
C25_DeleteRemovesOneLink ==
  \A r \in Slots :
    (variant \in {"file", "locked", "gist"} /\ reqs[r].op = "delete"
     /\ LastStored(r))
    => LET pre == lastMut.pre.links
       IN \E k \in 1..Len(pre) :
            /\ pre[k].id = reqs[r].id
            /\ store.links = SubSeq(pre, 1, k - 1) \o SubSeq(pre, k + 1, Len(pre))

\* a DELETE of the first of two links has been persisted
C25_Witness ==
  \E r \in Slots :
    /\ variant \in {"file", "locked", "gist"} /\ reqs[r].op = "delete"
    /\ LastStored(r)
    /\ Len(lastMut.pre.links) = 2 /\ lastMut.pre.links[1].id = reqs[r].id
    /\ Len(store.links) = 1

\* C26: locked; isWriting is false in every state in which a handler or a
\* timer callback can start, so readData returns what the file holds (the
\* empty Snapshot only for malformed content, as without the lock) and no
\* call of writeData has taken the branch that waits for the flag.
C26_FlagNeverSeenSet ==
  variant = "locked"
  => /\ running = 0 => (~isWriting /\ LockedReadData = LockedParsed)
     /\ \A r \in Slots : ~reqs[r].busy

\* the timer of a failed attempt has fired and its writeData took the flag
C26_Witness ==
  \E r \in Slots :
    /\ variant = "locked" /\ reqs[r].pc = "writing" /\ reqs[r].saves > 0
    /\ running = r /\ isWriting

\* C27 (as claimed): locked; when request a was answered 200 after a failed
\* attempt and a retry, request b was answered 200 at its first attempt
\* while a was under way, and the retry of a stored the file last, the file
\* holds the activity of both, and the link of b when b is a POST.
C27_RetryKeepsOtherChange ==
  \A a, b \in Slots :
    (/\ variant = "locked" /\ a # b
     /\ Done(a) /\ reqs[a].op \in MutOps /\ reqs[a].status = 200
     /\ Done(b) /\ reqs[b].op \in MutOps /\ reqs[b].status = 200
     /\ reqs[a].saves > 1 /\ reqs[b].saves = 1
     /\ store.kind = "snap" /\ Len(store.activities) > 0
     /\ Head(store.activities).id = reqs[a].actId)
    => /\ reqs[b].actId \in ActIds(store.activities)
       /\ reqs[b].op = "post" => reqs[b].newId \in Ids(store.links)

\* C28: file, locked, gist; a successful mutation that loaded n activities
\* persists n + 1 of them when n < CAP and n when n >= CAP: one activity at
\* most is removed, and more than CAP loaded activities stay more than CAP.
C28_AtMostOneActivityRemoved ==
  \A r \in Slots :
    (variant \in {"file", "locked", "gist"} /\ reqs[r].op \in MutOps
     /\ LastStored(r))
    => LET n == Len(lastMut.pre.activities)
       IN Len(store.activities) = IF n < Cap(variant) THEN n + 1 ELSE n

\* a mutation of a Snapshot with more than CAP activities has been persisted
C28_Witness ==
  \E r \in Slots :
    /\ variant \in {"file", "locked", "gist"} /\ reqs[r].op \in MutOps
    /\ LastStored(r)
    /\ Len(lastMut.pre.activities) > Cap(variant)
    /\ Len(store.activities) = Len(lastMut.pre.activities)

\* C29: file, locked; when the load of a POST /api/links found malformed
\* content in the data file (text that is no JSON, or JSON that is no
\* Snapshot), the step in which its write succeeds puts in the place of
\* what the file holds a Snapshot with one link, the new one, and one
\* activity, its `added`.
C29_PostAfterFailedLoad ==
  [][\A r \in Slots :
       (/\ variant \in {"file", "locked"} /\ reqs'[r].loadFailed
        /\ store' # store /\ Answers(r)
        /\ reqs'[r].op = "post" /\ reqs'[r].linkSaved)
       => /\ store'.kind = "snap"
          /\ Len(store'.links) = 1
          /\ store'.links[1].id = reqs'[r].newId
          /\ Len(store'.activities) = 1
          /\ store'.activities[1].id = reqs'[r].actId
          /\ store'.activities[1].type = "added"]_vars

\* a POST that found malformed content has been answered 200
C29_Witness ==
  \E r \in Slots :
    /\ variant \in {"file", "locked"} /\ Done(r) /\ reqs[r].op = "post"
    /\ reqs[r].status = 200 /\ reqs[r].seen = {}
    /\ store.kind = "snap" /\ Ids(store.links) = {reqs[r].newId}
    /\ lastMut.pre = EmptySnap /\ lastSave = "mutation"

\* C30: locked; a POST /api/restore with a data payload is answered 200 in
\* the step in which its call of writeData returns, whether the first write
\* succeeded or threw and a retry is still to come, and stays so; a
\* writeData promise goes unhandled only for a restore whose every attempt
\* failed (it ended in the catch block: the write threw, or the console.log
\* after the write threw), and that restore was answered 200 all the same.
C30_RestoreAnswersUnawaited ==
  /\ [][\A r \in Slots :
          (/\ variant = "locked" /\ reqs[r].op = "restore"
           /\ reqs[r].pc = "writing" /\ reqs[r].saves = 0
           /\ reqs'[r].saves = 1)
          => /\ reqs'[r].status = 200
             /\ (store' # reqs[r].data) => reqs'[r].pc = "retryWait"]_vars
  /\ [](\A r \in Slots :
          /\ (variant = "locked" /\ reqs[r].op = "restore"
               /\ reqs[r].saves > 0) => reqs[r].status = 200
          /\ reqs[r].unhandled
               => /\ reqs[r].op = "restore" /\ Done(r)
                  /\ reqs[r].saves = DefaultRetries + 1
                  /\ reqs[r].caught = reqs[r].saves
          /\ (variant = "locked" /\ Done(r) /\ reqs[r].op = "restore"
               /\ reqs[r].status = 200 /\ lastSave # "restore"
               /\ reqs[r].alone /\ Lone(r))
               => reqs[r].unhandled)

\* every attempt of a restore has failed
C30_Witness ==
  \E r \in Slots :
    /\ variant = "locked" /\ Done(r) /\ reqs[r].op = "restore"
    /\ reqs[r].status = 200 /\ reqs[r].unhandled
    /\ reqs[r].saves = DefaultRetries + 1 /\ lastSave # "restore"

\* gist: no load and no save is in flight: the startup load and the timer's
\* load have returned, and every request has been answered.
NothingInFlight ==
  boot.pc = "idle" /\ \A r \in Slots : Free(r)

\* gist, with a token: the last load of initializeData or of its timer, and
\* every fetchGist and updateGist called by the requests on record, got its
\* answer from the gist and returned from its try block; the most recent
\* backend operation is one of these.
RecentOpsSucceeded ==
  /\ boot.ok
  /\ \E r \in Slots : Done(r)
  /\ \A r \in Slots :
       Done(r) => /\ ~reqs[r].backendErr /\ ~reqs[r].loadFailed
                  /\ ~reqs[r].updFalse

\* C31 (as claimed): gist; in every state where no load and no save is in
\* flight and the most recent backend operation succeeded, dataCache equals
\* the content stored in the gist.
C31_CacheEqualsGist ==
  (variant = "gist" /\ token /\ NothingInFlight /\ RecentOpsSucceeded)
  => heap[dataCache] = store

====
